---- MODULE Spec2Model ----
(***************************************************************************)
(* Study Toolkit API: the request handlers of main.py, the record schemas  *)
(* of schemas.py, the summarizer, and the document store adapter           *)
(* (database.py: create_document / get_documents) the handlers call.       *)
(*                                                                         *)
(* Representation                                                          *)
(*   - a JSON field or query parameter that may be missing is a sequence   *)
(*     of length 0 (missing / None) or 1 (<<value>>);                      *)
(*   - short texts (title, tag, ...) are TLA+ strings;                     *)
(*   - uploaded bytes and the texts the summarizer works on are sequences  *)
(*     of one-character strings; a byte that is no valid text is one of    *)
(*     the markers in UndecodableBytes;                                    *)
(*   - a native store identifier is [type |-> "ObjectId", value |-> n];    *)
(*     its text rendering is [type |-> "str", value |-> <24 hex digits>].  *)
(***************************************************************************)
EXTENDS Integers, Sequences, FiniteSets, TLC

VARIABLES
    db,         \* the store connection handle: TRUE = connected, FALSE = None
    store,      \* collection name -> sequence of stored documents
    nextOid,    \* the store's identifier generator
    req,        \* the request being answered
    resp,       \* the response to it
    calls,      \* adapter round trips made while answering it
    created,    \* per kind, the acknowledged creates: {[id, data]}
    text,       \* summarizer input under SpecSum
    summary     \* summarizer output under SpecSum

vars == <<db, store, nextOid, req, resp, calls, created, text, summary>>

(***************************************************************************)
(* Bounds of the model.                                                    *)
(***************************************************************************)
MaxDocs == 2
MaxSummaries == 21
MaxFrags == 6

(***************************************************************************)
(* Generic helpers.                                                        *)
(***************************************************************************)
Range(s) == {s[i] : i \in 1..Len(s)}

Min(a, b) == IF a < b THEN a ELSE b

\* Python's s[:n] for n >= 0.
Take(s, n) == SubSeq(s, 1, Min(n, Len(s)))

None == <<>>

Some(v) == <<v>>

Collections == {"note", "flashcard", "question", "summary"}

(***************************************************************************)
(* Store identifiers and their text rendering.                             *)
(***************************************************************************)
HexDigit == <<"0", "1", "2", "3", "4", "5", "6", "7",
              "8", "9", "a", "b", "c", "d", "e", "f">>

RECURSIVE Hex(_)
Hex(n) == IF n < 16 THEN HexDigit[n + 1]
          ELSE Hex(n \div 16) \o HexDigit[(n % 16) + 1]

RECURSIVE PadLeft(_, _)
PadLeft(s, w) == IF Len(s) >= w THEN s ELSE PadLeft("0" \o s, w)

ObjectId(n) == [type |-> "ObjectId", value |-> n]

\* str(oid) of a native identifier: its 24 hex digits.
str(oid) == IF oid.type = "ObjectId"
            THEN [type |-> "str", value |-> PadLeft(Hex(oid.value), 24)]
            ELSE oid

(***************************************************************************)
(* schemas.py: what each model accepts (a required field must be there;    *)
(* Question.options has min_items=2, Question.answer_index has ge=0) and   *)
(* the validated record it yields (an optional field defaults to None).    *)
(***************************************************************************)
Missing(body, f) == body[f] = None

\* Mutant: Note with min_length=1 on title and content.
NoteErrorsNonEmpty(body) ==
    (IF Missing(body, "title") \/ body.title[1] = "" THEN <<"title">> ELSE <<>>)
    \o (IF Missing(body, "content") \/ body.content[1] = ""
        THEN <<"content">> ELSE <<>>)

NoteErrors(body) ==
    (IF Missing(body, "title") THEN <<"title">> ELSE <<>>)
    \o (IF Missing(body, "content") THEN <<"content">> ELSE <<>>)

Note(body) ==
    [title |-> body.title[1], content |-> body.content[1], topic |-> body.topic]

FlashcardErrors(body) ==
    (IF Missing(body, "front") THEN <<"front">> ELSE <<>>)
    \o (IF Missing(body, "back") THEN <<"back">> ELSE <<>>)

Flashcard(body) ==
    [front |-> body.front[1], back |-> body.back[1], tag |-> body.tag]

\* Mutant: Question without min_items=2 and ge=0.
QuestionErrorsUnbounded(body) ==
    (IF Missing(body, "question") THEN <<"question">> ELSE <<>>)
    \o (IF Missing(body, "options") THEN <<"options">> ELSE <<>>)
    \o (IF Missing(body, "answer_index") THEN <<"answer_index">> ELSE <<>>)

QuestionErrors(body) ==
    (IF Missing(body, "question") THEN <<"question">> ELSE <<>>)
    \o (IF Missing(body, "options") \/ Len(body.options[1]) < 2
        THEN <<"options">> ELSE <<>>)
    \o (IF Missing(body, "answer_index") \/ body.answer_index[1] < 0
        THEN <<"answer_index">> ELSE <<>>)

Question(body) ==
    [question |-> body.question[1], options |-> body.options[1],
     answer_index |-> body.answer_index[1], tag |-> body.tag]

Summary(file_name, txt, summ) ==
    [file_name |-> file_name, text |-> txt, summary |-> summ]

(***************************************************************************)
(* Python string operations the summarizer uses, on character sequences.   *)
(***************************************************************************)
Whitespace == {" ", "\t", "\n", "\r"}

\* text.replace(old, new) for one-character old and new.
replace(s, old, new) == [i \in 1..Len(s) |-> IF s[i] = old THEN new ELSE s[i]]

\* text.split(sep) for a one-character sep: the pieces between consecutive
\* separators, one more piece than there are separators.
split(s, sep) ==
    LET P == {i \in 1..Len(s) : s[i] = sep}
        n == Cardinality(P)
        cut(k) == IF k = 0 THEN 0
                  ELSE IF k = n + 1 THEN Len(s) + 1
                  ELSE CHOOSE i \in P : Cardinality({j \in P : j <= i}) = k
    IN  [k \in 1..(n + 1) |-> SubSeq(s, cut(k - 1) + 1, cut(k) - 1)]

RECURSIVE lstrip(_)
lstrip(s) == IF s # <<>> /\ Head(s) \in Whitespace THEN lstrip(Tail(s)) ELSE s

RECURSIVE rstrip(_)
rstrip(s) == IF s # <<>> /\ s[Len(s)] \in Whitespace
             THEN rstrip(SubSeq(s, 1, Len(s) - 1)) ELSE s

strip(s) == rstrip(lstrip(s))

\* sep.join(parts)
RECURSIVE join(_, _)
join(sep, parts) ==
    IF parts = <<>> THEN <<>>
    ELSE IF Len(parts) = 1 THEN parts[1]
    ELSE parts[1] \o sep \o join(sep, Tail(parts))

(***************************************************************************)
(* main.py: simple_summarize.                                              *)
(***************************************************************************)
NoContent ==
    <<"N", "o", " ", "c", "o", "n", "t", "e", "n", "t", " ", "t",
      "o", " ", "s", "u", "m", "m", "a", "r", "i", "z", "e", ".">>

SummarySentences == 5

NonEmptyMapped(parts) ==
    LET kept == SelectSeq(parts, LAMBDA s : strip(s) # <<>>)
    IN  [i \in 1..Len(kept) |-> strip(kept[i])]

\* Mutant: the fragments are kept as split, not trimmed.
simple_summarize_untrimmed(t) ==
    LET sentences == SelectSeq(split(replace(t, "\n", " "), "."),
                               LAMBDA f : strip(f) # <<>>)
        selected == Take(sentences, SummarySentences)
    IN  IF sentences = <<>> THEN NoContent
        ELSE join(<<".", " ">>, selected)
             \o (IF selected # <<>> THEN <<".">> ELSE <<>>)

simple_summarize(t) ==
    LET sentences == NonEmptyMapped(split(replace(t, "\n", " "), "."))
        selected == Take(sentences, SummarySentences)
    IN  IF sentences = <<>> THEN NoContent
        ELSE join(<<".", " ">>, selected)
             \o (IF selected # <<>> THEN <<".">> ELSE <<>>)

(***************************************************************************)
(* main.py: summarize_file's text extraction.                              *)
(***************************************************************************)
UndecodableBytes == {"xFF", "xFE"}

\* content_bytes.decode(errors="ignore"): undecodable bytes are dropped.
decode(bytes) == SelectSeq(bytes, LAMBDA b : b \notin UndecodableBytes)

Placeholder ==
    <<"(", "B", "i", "n", "a", "r", "y", " ", "f", "i", "l", "e",
      " ", "u", "p", "l", "o", "a", "d", "e", "d", ";", " ", "t",
      "e", "x", "t", " ", "e", "x", "t", "r", "a", "c", "t", "i",
      "o", "n", " ", "n", "o", "t", " ", "a", "v", "a", "i", "l",
      "a", "b", "l", "e", " ", "i", "n", " ", "d", "e", "m", "o",
      ")">>

TextLimit == 10000

ExtractText(content_bytes) ==
    LET t == decode(content_bytes)
    IN  IF t = <<>> \/ Len(strip(t)) = 0 THEN Placeholder ELSE t

(***************************************************************************)
(* The document store adapter (database.py).  A call fails with a          *)
(* StorageError when the connection handle is None or when the store       *)
(* rejects the read or write.                                              *)
(***************************************************************************)
StoreUnavailable == [type |-> "Exception", msg |-> "Database not available"]

WriteRejected == [type |-> "Exception", msg |-> "write rejected by the store"]

ReadRejected == [type |-> "Exception", msg |-> "read rejected by the store"]

\* str(e) of an exception, str(oid) of an identifier.
pystr(x) == IF x.type = "Exception" THEN x.msg ELSE str(x)

\* insert(collectionName, record) -> id: one document appended to the named
\* collection under a fresh identifier, which is returned as text.
create_document(collection_name, data, rejected) ==
    IF ~db THEN [ok |-> FALSE, error |-> StoreUnavailable]
    ELSE IF rejected THEN [ok |-> FALSE, error |-> WriteRejected]
    ELSE LET oid == ObjectId(nextOid)
         IN  [ok |-> TRUE,
              inserted_id |-> str(oid),
              store |-> [store EXCEPT ![collection_name] =
                            Append(@, [_id |-> oid] @@ data)],
              nextOid |-> nextOid + 1]

\* A filter is a set of <<field, expected value>> pairs; the empty filter
\* matches every document.
Matches(doc, filter_dict) == \A p \in filter_dict : doc[p[1]] = Some(p[2])

\* What a limit that is no positive number may do: the adapter's contract
\* says only what a limit of at least 1 does.
LimitOutcomes == {"all", "none", "abs", "error"}

\* query(collectionName, filter, limit) -> the matching documents in store
\* order, at most limit of them when a limit is given.
get_documents(collection_name, filter_dict, limit, rejected, outcome) ==
    LET docs == SelectSeq(store[collection_name],
                          LAMBDA d : Matches(d, filter_dict))
    IN  IF ~db THEN [ok |-> FALSE, error |-> StoreUnavailable]
        ELSE IF rejected THEN [ok |-> FALSE, error |-> ReadRejected]
        ELSE IF limit = None THEN [ok |-> TRUE, docs |-> docs]
        ELSE IF limit[1] >= 1 THEN [ok |-> TRUE, docs |-> Take(docs, limit[1])]
        ELSE CASE outcome = "all" -> [ok |-> TRUE, docs |-> docs]
               [] outcome = "none" -> [ok |-> TRUE, docs |-> <<>>]
               [] outcome = "abs" -> [ok |-> TRUE, docs |-> Take(docs, 0 - limit[1])]
               [] OTHER -> [ok |-> FALSE, error |-> ReadRejected]

(***************************************************************************)
(* The endpoint layer (main.py).                                           *)
(***************************************************************************)
Ok(body) == [status |-> 200, body |-> body]

HTTPException(status_code, detail) == [status |-> status_code, detail |-> detail]

\* Mutant: a body that does not fit is answered like a failure in the handler.
ValidationAsServerError(errors) == [status |-> 500, detail |-> "validation error"]

\* A body that does not fit the handler's schema never enters the handler:
\* the framework answers 422 with the failing fields.
RequestValidationError(errors) == [status |-> 422, detail |-> errors]

\* Mutant: the identifiers are left as the store's native values.
RenderIdsNative(docs) == docs

\* for n in notes: n["_id"] = str(n["_id"])
RenderIds(docs) == [i \in 1..Len(docs) |-> [docs[i] EXCEPT !._id = str(@)]]

\* Python truthiness of an Optional[str] query parameter.
Truthy(param) == param # None /\ param[1] # ""

\* Mutant: the filter is never built.
FilterDictEmpty(field, param) == {}

\* {"topic": topic} if topic else {}
FilterDict(field, param) == IF Truthy(param) THEN {<<field, param[1]>>} ELSE {}

Rejected(request) ==
    /\ req' = request
    /\ resp' = RequestValidationError(request.errors)
    /\ calls' = 0
    /\ UNCHANGED <<db, store, nextOid, created, text, summary>>

\* Mutant: the record is inserted twice.
CreateTwice(request, kind, record, extra, rejected) ==
    LET r == create_document(kind, record, rejected)
    IN  /\ req' = request
        /\ calls' = 1
        /\ IF r.ok
           THEN /\ resp' = Ok([id |-> r.inserted_id] @@ extra)
                /\ store' = [r.store EXCEPT ![kind] =
                                 Append(@, [_id |-> ObjectId(r.nextOid)] @@ record)]
                /\ nextOid' = r.nextOid + 1
                /\ created' = [created EXCEPT ![kind] =
                                  @ \cup {[id |-> r.inserted_id, data |-> record]}]
           ELSE /\ resp' = HTTPException(500, pystr(r.error))
                /\ UNCHANGED <<store, nextOid, created>>
        /\ UNCHANGED <<db, text, summary>>

\* Mutant: a failed insert is tried once more before giving up.
CreateRetrying(request, kind, record, extra, rejected) ==
    LET first == create_document(kind, record, rejected)
        r == IF first.ok THEN first ELSE create_document(kind, record, FALSE)
    IN  /\ req' = request
        /\ calls' = IF first.ok THEN 1 ELSE 2
        /\ IF r.ok
           THEN /\ resp' = Ok([id |-> r.inserted_id] @@ extra)
                /\ store' = r.store
                /\ nextOid' = r.nextOid
                /\ created' = [created EXCEPT ![kind] =
                                  @ \cup {[id |-> r.inserted_id, data |-> record]}]
           ELSE /\ resp' = HTTPException(500, pystr(r.error))
                /\ UNCHANGED <<store, nextOid, created>>
        /\ UNCHANGED <<db, text, summary>>

\* try: inserted_id = create_document(kind, record); return {"id": inserted_id}
\* except Exception as e: raise HTTPException(status_code=500, detail=str(e))
Create(request, kind, record, extra, rejected) ==
    LET r == create_document(kind, record, rejected)
    IN  /\ req' = request
        /\ calls' = 1
        /\ IF r.ok
           THEN /\ resp' = Ok([id |-> r.inserted_id] @@ extra)
                /\ store' = r.store
                /\ nextOid' = r.nextOid
                /\ created' = [created EXCEPT ![kind] =
                                  @ \cup {[id |-> r.inserted_id, data |-> record]}]
           ELSE /\ resp' = HTTPException(500, pystr(r.error))
                /\ UNCHANGED <<store, nextOid, created>>
        /\ UNCHANGED <<db, text, summary>>

\* Nothing but the id goes into the response of a plain create.
NoExtra == [f \in {} |-> ""]

create_note(body, rejected) ==
    LET request == [op |-> "create_note", kind |-> "note", body |-> body,
                    errors |-> NoteErrors(body)]
    IN  IF request.errors # <<>> THEN Rejected(request)
        ELSE Create(request, "note", Note(body), NoExtra, rejected)

create_flashcard(body, rejected) ==
    LET request == [op |-> "create_flashcard", kind |-> "flashcard", body |-> body,
                    errors |-> FlashcardErrors(body)]
    IN  IF request.errors # <<>> THEN Rejected(request)
        ELSE Create(request, "flashcard", Flashcard(body), NoExtra, rejected)

create_question(body, rejected) ==
    LET request == [op |-> "create_question", kind |-> "question", body |-> body,
                    errors |-> QuestionErrors(body)]
    IN  IF request.errors # <<>> THEN Rejected(request)
        ELSE Create(request, "question", Question(body), NoExtra, rejected)

summarize_file(content_bytes, filename, rejected) ==
    LET request == [op |-> "summarize_file", kind |-> "summary",
                    bytes |-> content_bytes, filename |-> filename]
        t == ExtractText(content_bytes)
        summ == simple_summarize(t)
        data == Summary(filename, Take(t, TextLimit), summ)
    IN  Create(request, "summary", data, [summary |-> summ], rejected)

\* try: docs = get_documents(kind, filter_dict[, limit]); render ids; return docs
\* except Exception as e: raise HTTPException(status_code=500, detail=str(e))
List(request, kind, filter_dict, limit, rejected, outcome) ==
    LET r == get_documents(kind, filter_dict, limit, rejected, outcome)
    IN  /\ req' = request
        /\ calls' = 1
        /\ resp' = IF r.ok THEN Ok(RenderIds(r.docs))
                   ELSE HTTPException(500, pystr(r.error))
        /\ UNCHANGED <<db, store, nextOid, created, text, summary>>

list_notes(topic, rejected) ==
    List([op |-> "list_notes", kind |-> "note", field |-> "topic", param |-> topic],
         "note", FilterDict("topic", topic), None, rejected, "all")

list_flashcards(tag, rejected) ==
    List([op |-> "list_flashcards", kind |-> "flashcard", field |-> "tag", param |-> tag],
         "flashcard", FilterDict("tag", tag), None, rejected, "all")

list_questions(tag, rejected) ==
    List([op |-> "list_questions", kind |-> "question", field |-> "tag", param |-> tag],
         "question", FilterDict("tag", tag), None, rejected, "all")

DefaultLimit == 20

\* Mutant: the limit is not handed to the adapter.
list_summaries_unlimited(limit_param, rejected, outcome) ==
    LET limit == IF limit_param = None THEN DefaultLimit ELSE limit_param[1]
    IN  List([op |-> "list_summaries", kind |-> "summary", param |-> limit_param,
              limit |-> limit],
             "summary", {}, None, rejected, outcome)

\* limit is the query parameter when given, the default otherwise.
list_summaries(limit_param, rejected, outcome) ==
    LET limit == IF limit_param = None THEN DefaultLimit ELSE limit_param[1]
    IN  List([op |-> "list_summaries", kind |-> "summary", param |-> limit_param,
              limit |-> limit],
             "summary", {}, Some(limit), rejected, outcome)

(***************************************************************************)
(* The requests the model sends.                                           *)
(***************************************************************************)
NoteBodies ==
    {[title |-> Some("t"), content |-> Some("c"), topic |-> tp] :
        tp \in {None, Some(""), Some("x")}}
    \cup {[title |-> Some(""), content |-> Some("c"), topic |-> Some("y")],
          [title |-> Some("t"), content |-> Some(""), topic |-> None],
          [title |-> None, content |-> Some("c"), topic |-> None],
          [title |-> Some("t"), content |-> None, topic |-> Some("x")]}

FlashcardBodies ==
    {[front |-> Some("f"), back |-> Some("b"), tag |-> tg] :
        tg \in {None, Some(""), Some("x")}}
    \cup {[front |-> Some(""), back |-> Some(""), tag |-> Some("y")],
          [front |-> None, back |-> Some("b"), tag |-> None],
          [front |-> Some("f"), back |-> None, tag |-> Some("x")]}

QuestionBodies ==
    {[question |-> Some("q"), options |-> Some(<<"a", "b">>),
      answer_index |-> Some(ai), tag |-> tg] :
        ai \in {-1, 0, 5}, tg \in {None, Some("x")}}
    \cup {[question |-> Some("q"), options |-> Some(o),
           answer_index |-> Some(0), tag |-> Some("")] : o \in {<<>>, <<"a">>}}
    \cup {[question |-> None, options |-> None, answer_index |-> None, tag |-> None]}

Uploads ==
    {<<>>,
     <<"xFF", "xFE">>,
     <<"xFF", " ", "\n">>,
     <<"a", ".", "\n", "b">>,
     <<"%", "P", "D", "F", "xFF">>}

FileNames == {"f.bin"}

Params == {None, Some(""), Some("x"), Some("y")}

Limits == {None, Some(-1), Some(0), Some(1), Some(2)}

(***************************************************************************)
(* The service: started with or without a store connection, then answering *)
(* one request after another.                                              *)
(***************************************************************************)
Init ==
    /\ db \in BOOLEAN
    /\ store = [c \in Collections |-> <<>>]
    /\ nextOid = 1
    /\ req = [op |-> "none"]
    /\ resp = [status |-> 0]
    /\ calls = 0
    /\ created = [c \in Collections |-> {}]
    /\ text = <<>>
    /\ summary = <<>>

CanInsert == nextOid <= MaxDocs

CreateNote ==
    \E body \in NoteBodies, rejected \in BOOLEAN :
        CanInsert /\ create_note(body, rejected)

ListNotes == \E topic \in Params, rejected \in BOOLEAN : list_notes(topic, rejected)

CreateFlashcard ==
    \E body \in FlashcardBodies, rejected \in BOOLEAN :
        CanInsert /\ create_flashcard(body, rejected)

ListFlashcards ==
    \E tag \in Params, rejected \in BOOLEAN : list_flashcards(tag, rejected)

CreateQuestion ==
    \E body \in QuestionBodies, rejected \in BOOLEAN :
        CanInsert /\ create_question(body, rejected)

ListQuestions ==
    \E tag \in Params, rejected \in BOOLEAN : list_questions(tag, rejected)

SummarizeFile ==
    \E b \in Uploads, f \in FileNames, rejected \in BOOLEAN :
        CanInsert /\ summarize_file(b, f, rejected)

\* The outcome is a choice only where the limit is no positive number.
OutcomesFor(limit) ==
    IF limit # None /\ limit[1] < 1 THEN LimitOutcomes ELSE {"all"}

ListSummaries ==
    \E limit \in Limits, rejected \in BOOLEAN :
        \E outcome \in OutcomesFor(limit) :
            list_summaries(limit, rejected, outcome)

Next ==
    \/ CreateNote
    \/ ListNotes
    \/ CreateFlashcard
    \/ ListFlashcards
    \/ CreateQuestion
    \/ ListQuestions
    \/ SummarizeFile
    \/ ListSummaries

Spec == Init /\ [][Next]_vars

(***************************************************************************)
(* SpecLimit: the summaries collection alone, filled far enough for the    *)
(* default limit to cut the listing.                                       *)
(***************************************************************************)
WideLimits ==
    {None, Some(-2), Some(0), Some(1), Some(2), Some(5), Some(DefaultLimit),
     Some(DefaultLimit + 5)}

UploadText ==
    \E rejected \in BOOLEAN :
        /\ nextOid <= MaxSummaries
        /\ summarize_file(<<"a", ".">>, "a.txt", rejected)

ListLimited ==
    \E limit \in WideLimits, rejected \in BOOLEAN :
        \E outcome \in OutcomesFor(limit) :
            list_summaries(limit, rejected, outcome)

NextLimit == UploadText \/ ListLimited

SpecLimit == Init /\ [][NextLimit]_vars

(***************************************************************************)
(* SpecSum: simple_summarize applied to one text out of Texts: up to       *)
(* MaxFrags pieces put together with periods.                              *)
(***************************************************************************)
Pieces ==
    {<<>>, <<" ">>, <<"a">>, <<"\n", "b", "\t">>, <<"a", " ", "\n", "b">>}

Texts ==
    {join(<<".">>, ps) : ps \in UNION {[1..n -> Pieces] : n \in 0..MaxFrags}}

InitSum ==
    /\ db = TRUE
    /\ store = [c \in Collections |-> <<>>]
    /\ nextOid = 1
    /\ req = [op |-> "none"]
    /\ resp = [status |-> 0]
    /\ calls = 0
    /\ created = [c \in Collections |-> {}]
    /\ text \in Texts
    /\ summary = <<>>

Summarize ==
    /\ req.op = "none"
    /\ req' = [op |-> "simple_summarize"]
    /\ summary' = simple_summarize(text)
    /\ UNCHANGED <<db, store, nextOid, resp, calls, created, text>>

NextSum == Summarize

SpecSum == InitSum /\ [][NextSum]_vars

(***************************************************************************)
(* Vocabulary of the properties.                                           *)
(***************************************************************************)
JsonCreates == {"create_note", "create_flashcard", "create_question"}

CreateOps == JsonCreates \cup {"summarize_file"}

FilteredLists == {"list_notes", "list_flashcards", "list_questions"}

ListOps == FilteredLists \cup {"list_summaries"}

IsNonEmptyText(v) == v.type = "str" /\ Len(v.value) > 0

Rendered(doc) == [doc EXCEPT !._id = [type |-> "str",
                                      value |-> PadLeft(Hex(@.value), 24)]]

AllIds(st) == UNION {{st[c][i]._id : i \in 1..Len(st[c])} : c \in Collections}

Last(s) == s[Len(s)]

(***************************************************************************)
(* C1: after a successful create of a Note, Flashcard or Question, every   *)
(* later successful unfiltered list of that kind holds the created record, *)
(* under an identifier that is a non-empty string and is the id the create *)
(* returned.                                                               *)
(***************************************************************************)
C1_CreateThenList ==
    (req.op \in FilteredLists /\ req.param = None /\ resp.status = 200) =>
        \A c \in created[req.kind] :
            /\ IsNonEmptyText(c.id)
            /\ \E i \in 1..Len(resp.body) :
                   /\ IsNonEmptyText(resp.body[i]._id)
                   /\ resp.body[i] = [_id |-> c.id] @@ c.data

C1_Witness ==
    /\ req.op = "list_notes" /\ req.param = None /\ resp.status = 200
    /\ Cardinality(created["note"]) = 2
    /\ Len(resp.body) = 2

(***************************************************************************)
(* C2: a create-question request with fewer than 2 options or a negative   *)
(* answer_index fails validation without reaching the store, and every     *)
(* stored question has at least 2 options and a non-negative answer_index. *)
(***************************************************************************)
C2_QuestionBounds ==
    /\ \A d \in Range(store["question"]) :
           Len(d.options) >= 2 /\ d.answer_index >= 0
    /\ (/\ req.op = "create_question"
        /\ \/ (req.body.options # None /\ Len(req.body.options[1]) < 2)
           \/ (req.body.answer_index # None /\ req.body.answer_index[1] < 0))
       => (resp.status # 200 /\ calls = 0 /\ req.errors # <<>>)

C2_Witness ==
    /\ req.op = "create_question"
    /\ req.body.answer_index = Some(-1)
    /\ resp.status # 200
    /\ db /\ store["question"] # <<>>

(***************************************************************************)
(* C3: simple_summarize returns "No content to summarize." when no         *)
(* non-empty fragment remains after replacing newlines by spaces,          *)
(* splitting on "." and trimming; otherwise the first min(5, n) non-empty  *)
(* trimmed fragments in order, joined with ". " and ended by one ".".      *)
(* The fragments are found here by one scan over the characters.           *)
(***************************************************************************)
RECURSIVE ScanFragments(_, _, _)
ScanFragments(s, i, cur) ==
    IF i > Len(s) THEN <<cur>>
    ELSE IF s[i] = "." THEN <<cur>> \o ScanFragments(s, i + 1, <<>>)
    ELSE ScanFragments(s, i + 1, Append(cur, IF s[i] = "\n" THEN " " ELSE s[i]))

Trimmed(f) ==
    LET inked == {i \in 1..Len(f) : f[i] \notin Whitespace}
    IN  IF inked = {} THEN <<>>
        ELSE SubSeq(f, CHOOSE i \in inked : \A j \in inked : i <= j,
                       CHOOSE i \in inked : \A j \in inked : i >= j)

KeptFragments(t) ==
    LET raw == ScanFragments(t, 1, <<>>)
    IN  SelectSeq([i \in 1..Len(raw) |-> Trimmed(raw[i])], LAMBDA f : f # <<>>)

RECURSIVE Glued(_, _)
Glued(fs, k) ==
    IF k = 1 THEN fs[1] ELSE Glued(fs, k - 1) \o <<".", " ">> \o fs[k]

ExpectedSummary(t) ==
    LET fs == KeptFragments(t)
    IN  IF fs = <<>> THEN NoContent
        ELSE Glued(fs, IF Len(fs) < 5 THEN Len(fs) ELSE 5) \o <<".">>

Periods(s) == Cardinality({i \in 1..Len(s) : s[i] = "."})

C3_Summarizer ==
    req.op = "simple_summarize" =>
        /\ summary = ExpectedSummary(text)
        /\ (\A i \in 1..Len(text) : text[i] \in Whitespace) => summary = NoContent
        /\ Len(KeptFragments(text)) >= 6 =>
               summary = Glued(KeptFragments(text), 5) \o <<".">>
        /\ (Periods(text) = 0 /\ KeptFragments(text) # <<>>) =>
               summary = Trimmed(replace(text, "\n", " ")) \o <<".">>

C3_Witness ==
    /\ req.op = "simple_summarize"
    /\ Len(KeptFragments(text)) >= 6
    /\ Periods(summary) = 5
    /\ summary # NoContent

(***************************************************************************)
(* C4: an upload of bytes that are no valid text, once stored, has left    *)
(* one Summary record whose text is the placeholder and whose summary is   *)
(* the summarizer's output on the placeholder, and the response carries    *)
(* that record's id and that summary.                                      *)
(***************************************************************************)
NonText(bytes) == \E i \in 1..Len(bytes) : bytes[i] \in UndecodableBytes

C4_BinaryUploadStoresPlaceholder ==
    (req.op = "summarize_file" /\ resp.status = 200 /\ NonText(req.bytes)) =>
        /\ store["summary"] # <<>>
        /\ Last(store["summary"]).text = Placeholder
        /\ Last(store["summary"]).summary = ExpectedSummary(Placeholder)
        /\ resp.body.summary = Last(store["summary"]).summary
        /\ resp.body.id = Rendered(Last(store["summary"]))._id

(***************************************************************************)
(* C5: a create or list whose storage operation fails (no connection, or   *)
(* the read or write rejected) answers 500 with the failure's text as      *)
(* detail after a single adapter call, adds no document to any collection, *)
(* and the service goes on answering requests.                             *)
(***************************************************************************)
FailureText(request) ==
    IF ~db THEN "Database not available"
    ELSE IF request.op \in CreateOps THEN "write rejected by the store"
    ELSE "read rejected by the store"

C5_FailureStep ==
    /\ (~db /\ calls' = 1) => resp'.status = 500
    /\ resp'.status = 500 =>
           /\ req'.op \in CreateOps \cup ListOps
           /\ resp'.detail = FailureText(req')
           /\ calls' = 1
           /\ store' = store
           /\ nextOid' = nextOid

C5_StorageFailure ==
    /\ [][C5_FailureStep]_vars
    /\ [](resp.status = 500 => ENABLED Next)

C5_Witness ==
    /\ req.op = "create_note" /\ resp.status = 500
    /\ db /\ store["note"] # <<>>

(***************************************************************************)
(* C6 (as amended): list_summaries with a limit L >= 1 on a store of N     *)
(* summaries returns at most L records, and exactly L whenever N >= L;     *)
(* without a limit parameter the limit is 20.                              *)
(***************************************************************************)
LimitHolds(L) ==
    /\ Len(resp.body) <= L
    /\ Len(store["summary"]) >= L => Len(resp.body) = L
    /\ Len(store["summary"]) < L => Len(resp.body) = Len(store["summary"])

C6_PositiveLimit ==
    (req.op = "list_summaries" /\ resp.status = 200) =>
        /\ req.param # None /\ req.param[1] >= 1 => LimitHolds(req.param[1])
        /\ req.param = None => LimitHolds(20)

C6_Witness ==
    /\ req.op = "list_summaries" /\ resp.status = 200
    /\ req.param = Some(2)
    /\ Len(store["summary"]) = 5
    /\ Len(resp.body) = 2

\* C6 as stated: the same for every limit value a caller can give.
C6_AnyLimit ==
    (req.op = "list_summaries" /\ resp.status = 200) =>
        /\ req.param # None => LimitHolds(req.param[1])
        /\ req.param = None => LimitHolds(20)

(***************************************************************************)
(* C7 (as amended): a successful list of notes (by topic), flashcards or   *)
(* questions (by tag) returns exactly the stored records whose field       *)
(* equals the filter value when that value is a non-empty string (an empty *)
(* sequence when none matches), and every record of the kind when the      *)
(* value is missing or the empty string.                                   *)
(***************************************************************************)
ListShows(hits) ==
    LET docs == store[req.kind]
    IN  /\ Len(resp.body) = Cardinality(hits)
        /\ Range(resp.body) = {Rendered(docs[i]) : i \in hits}

AllOfKind == 1..Len(store[req.kind])

WithField == {i \in AllOfKind : store[req.kind][i][req.field] = Some(req.param[1])}

C7_NonEmptyFilter ==
    (req.op \in FilteredLists /\ resp.status = 200) =>
        IF req.param # None /\ req.param[1] # ""
        THEN ListShows(WithField)
        ELSE ListShows(AllOfKind)

C7_Witness ==
    /\ req.op = "list_notes" /\ resp.status = 200
    /\ req.param = Some("y")
    /\ Len(store["note"]) = 2
    /\ resp.body = <<>>

\* C7 as stated: exact match whenever a value is supplied.
C7_AnySuppliedFilter ==
    (req.op \in FilteredLists /\ resp.status = 200) =>
        IF req.param # None
        THEN ListShows(WithField)
        ELSE ListShows(AllOfKind)

(***************************************************************************)
(* C8 (as amended): a create request that fails schema validation          *)
(* (missing required field, too few options, negative answer_index) is     *)
(* answered 422 with the failing fields as detail, before the handler and  *)
(* the store are reached; 500 is the answer to storage failures only.      *)
(***************************************************************************)
C8_ValidationIsClientError ==
    /\ (req.op \in JsonCreates /\ req.errors # <<>>) =>
           (resp.status = 422 /\ resp.detail = req.errors /\ calls = 0)
    /\ (req.op \in JsonCreates /\ resp.status = 500) =>
           (req.errors = <<>> /\ calls = 1)

C8_Witness ==
    /\ req.op = "create_question"
    /\ req.body.options = Some(<<"a">>)
    /\ req.errors = <<"options">>
    /\ resp.status = 422

\* C8 as stated: a validation failure is answered like every other failure,
\* with status 500 and a free-text detail.
C8_ValidationIsServerError ==
    (req.op \in JsonCreates /\ req.errors # <<>>) => resp.status = 500

(***************************************************************************)
(* C9 (as amended): every stored Note has a title and a content, every     *)
(* stored Flashcard a front and a back, each as the request gave it, the   *)
(* empty string included; a create request is rejected, storing nothing,   *)
(* exactly when one of these fields is missing.                            *)
(***************************************************************************)
Required(kind) == IF kind = "note" THEN {"title", "content"} ELSE {"front", "back"}

C9_RequiredFieldsPresent ==
    /\ \A k \in {"note", "flashcard"} :
           \A d \in Range(store[k]) : Required(k) \subseteq DOMAIN d
    /\ req.op \in {"create_note", "create_flashcard"} =>
           /\ (resp.status = 422 /\ calls = 0)
                  <=> (\E f \in Required(req.kind) : req.body[f] = None)
           /\ resp.status = 200 =>
                  \A f \in Required(req.kind) :
                      Some(Last(store[req.kind])[f]) = req.body[f]

C9_Witness ==
    /\ req.op = "create_note" /\ resp.status = 200
    /\ req.body.title = Some("")
    /\ Last(store["note"]).title = ""

\* C9 as stated: the stored texts are non-empty and a request with an empty
\* one is rejected.
C9_NonEmptyFields ==
    /\ \A d \in Range(store["note"]) : d.title # "" /\ d.content # ""
    /\ \A d \in Range(store["flashcard"]) : d.front # "" /\ d.back # ""
    /\ (req.op \in {"create_note", "create_flashcard"}
        /\ \E f \in Required(req.kind) : req.body[f] = Some(""))
       => resp.status # 200

(***************************************************************************)
(* C10: a successful create (note, flashcard, question, upload) appends    *)
(* exactly one document, under an identifier no stored document has, to    *)
(* its own collection, and changes no other collection and no document    *)
(* stored before, also when the same request was sent before; every other  *)
(* step, a list above all, leaves the store as it is.                      *)
(***************************************************************************)
C10_Step ==
    IF req'.op \in CreateOps /\ resp'.status = 200 /\ <<req, resp>> # <<req', resp'>>
    THEN LET k == req'.kind
         IN  /\ Len(store'[k]) = Len(store[k]) + 1
             /\ SubSeq(store'[k], 1, Len(store[k])) = store[k]
             /\ Last(store'[k])._id \notin AllIds(store)
             /\ Rendered(Last(store'[k]))._id = resp'.body.id
             /\ \A c \in Collections \ {k} : store'[c] = store[c]
    ELSE store' = store

C10_Frame == [][C10_Step]_vars

C10_Witness ==
    /\ req.op = "create_note" /\ resp.status = 200
    /\ Len(store["note"]) = 2
    /\ store["note"][1]._id # store["note"][2]._id
    /\ [store["note"][1] EXCEPT !._id = 0] = [store["note"][2] EXCEPT !._id = 0]

====
